---------------------------- MODULE Spec2Model ----------------------------
(* A model of build-webrtc.py: one invocation of the script is a run that   *)
(* walks from argument validation through setup, sync or build.  The file   *)
(* system is a function from paths to nodes; a path is a sequence of names  *)
(* and a name is a tuple of the string parts an f-string or a '+' joins.    *)
EXTENDS Integers, Sequences, FiniteSets, TLC

VARIABLES args, fs, fs0, cwd, pc, idx, exitCode, ran, last, intr, fetched, run, prev

vars == <<args, fs, fs0, cwd, pc, idx, exitCode, ran, last, intr, fetched, run, prev, fs0, fetched>>

(* ------------------------------ bounds ---------------------------------- *)

MaxInterrupts == 1
MaxRuns == 3

FailCodes == {1, 2}

(* ----------------------------- constants -------------------------------- *)

APPLE_FRAMEWORK_NAME == <<"WebRTC.framework">>
APPLE_DSYM_NAME == <<"WebRTC.dSYM">>

ANDROID_BUILD_CPUS == <<"arm", "arm64", "x86", "x64">>

\* the map with the ABI name of x86 entered for x64 as well
AbiMapX64AsX86 ==
    [cpu \in {"arm", "arm64", "x86", "x64"} |->
        CASE cpu = "arm" -> <<"armeabi-v7a">>
          [] cpu = "arm64" -> <<"arm64-v8a">>
          [] cpu = "x86" -> <<"x86">>
          [] cpu = "x64" -> <<"x86">>]

ANDROID_CPU_ABI_MAP ==
    [cpu \in {"arm", "arm64", "x86", "x64"} |->
        CASE cpu = "arm" -> <<"armeabi-v7a">>
          [] cpu = "arm64" -> <<"arm64-v8a">>
          [] cpu = "x86" -> <<"x86">>
          [] cpu = "x64" -> <<"x86_64">>]

IOS_BUILD_ARCHS == << <<"device", "arm64">>, <<"simulator", "arm64">>, <<"simulator", "x64">> >>
MACOS_BUILD_ARCHS == <<"arm64", "x64">>

(* --------------------------- file system -------------------------------- *)

DirNode == [t |-> "dir", v |-> {}]
FileNode(v) == [t |-> "file", v |-> v]

Exists(f, p) == p \in DOMAIN f
IsDir(f, p) == p \in DOMAIN f /\ f[p].t = "dir"
IsFile(f, p) == p \in DOMAIN f /\ f[p].t = "file"

IsPrefix(p, q) == Len(p) <= Len(q) /\ SubSeq(q, 1, Len(p)) = p
Suffix(p, q) == SubSeq(q, Len(p) + 1, Len(q))
Basename(p) == <<p[Len(p)]>>

Put(f, p, n) == [q \in DOMAIN f \cup {p} |-> IF q = p THEN n ELSE f[q]]

Prefixes(p) == {SubSeq(p, 1, k) : k \in 1..Len(p)}

\* os.makedirs with EEXIST swallowed: the path and every missing ancestor
mkdirp(f, p) ==
    [q \in DOMAIN f \cup Prefixes(p) |-> IF q \in DOMAIN f THEN f[q] ELSE DirNode]

\* shutil.rmtree with ENOENT swallowed
rmr(f, p) == [q \in {r \in DOMAIN f : ~IsPrefix(p, r)} |-> f[q]]

\* shutil.copytree raises when the source is no directory or the target exists
copytreeOk(f, src, dst) == IsDir(f, src) /\ ~Exists(f, dst)
copytree(f, src, dst) ==
    LET sub == {q \in DOMAIN f : IsPrefix(src, q)}
        img == {dst \o Suffix(src, q) : q \in sub}
    IN  [r \in DOMAIN f \cup img |->
            IF r \in img THEN f[src \o Suffix(dst, r)] ELSE f[r]]

\* shutil.move: into dst when dst is a directory, else a rename to dst
moveTarget(f, src, dst) == IF IsDir(f, dst) THEN dst \o Basename(src) ELSE dst
moveOk(f, src, dst) == Exists(f, src) /\ ~Exists(f, moveTarget(f, src, dst))
move(f, src, dst) == rmr(copytree(f, src, moveTarget(f, src, dst)), src)

\* shutil.copy: into dst when dst is a directory, else to the file dst
copyOk(f, src, dst) == IsFile(f, src)
copy(f, src, dst) ==
    Put(f, IF IsDir(f, dst) THEN dst \o Basename(src) ELSE dst, f[src])

\* the architecture slices of every binary below a bundle
ArchsUnder(f, p) == UNION {f[q].v : q \in {r \in DOMAIN f : IsPrefix(p, r) /\ f[r].t = "file"}}

(* ------------------------- derived from args ---------------------------- *)

Flags == [setup : BOOLEAN, build : BOOLEAN, sync : BOOLEAN,
          ios : BOOLEAN, android : BOOLEAN, debug : BOOLEAN]

WorkDir == << <<"work">> >>

TargetDir == args.dir \o << <<"build_webrtc">> >>
Platform == IF args.ios THEN "ios" ELSE "android"
DepotToolsDir == TargetDir \o << <<"depot_tools">> >>
WebrtcDir == TargetDir \o << <<"webrtc">>, <<Platform>> >>
SrcDir == WebrtcDir \o << <<"src">> >>
BuildDir == TargetDir \o << <<"build">>, <<Platform>> >>
BuildType == IF args.debug THEN "Debug" ELSE "Release"

\* the first failing check of __main__, or "ok"
Validate(a, f) ==
    IF ~(a.setup \/ a.build \/ a.sync) THEN "no action"
    ELSE IF a.setup /\ a.build THEN "setup and build"
    ELSE IF ~(a.ios \/ a.android) THEN "no platform"
    ELSE IF a.ios /\ a.android THEN "two platforms"
    ELSE IF ~IsDir(f, a.dir) THEN "no directory"
    ELSE "ok"

\* the dispatch with the build branch tested before the sync branch
DispatchBuildFirst(a) ==
    IF a.setup THEN "setup" ELSE IF a.build THEN "build" ELSE "sync"

\* the function __main__ calls once validation has passed
Dispatch(a) ==
    IF a.setup THEN "setup" ELSE IF a.sync THEN "sync" ELSE "build"

(* ------------------------------- sh ------------------------------------- *)

Returned(rc) == [kind |-> "returned", rc |-> rc]
Interrupted == [kind |-> "interrupted", rc |-> 0]
Outcomes == {Returned(0)} \cup {Returned(c) : c \in FailCodes} \cup {Interrupted}

NoCmd == [cmd |-> "", arg |-> <<>>, cwd |-> <<>>, out |-> Returned(0)]

\* sh exiting with status 1 whatever the command returned
ShResultExit1(o) ==
    IF o.kind = "returned" /\ o.rc # 0
    THEN [exit |-> TRUE, code |-> 1]
    ELSE [exit |-> FALSE, code |-> 0]

\* what sh does once check_call has ended: exit with the code, or return
ShResult(o) ==
    IF o.kind = "returned" /\ o.rc # 0
    THEN [exit |-> TRUE, code |-> o.rc]
    ELSE [exit |-> FALSE, code |-> 0]

\* sh(cmd) with working directory dir; before is the file system when the
\* command starts, after the one a complete command leaves.  A command that
\* fails or is interrupted has done all of its work or none of it.
Sh(cmd, arg, dir, before, after, nxt) ==
    \E o \in Outcomes, done \in BOOLEAN :
        /\ o = Returned(0) => done
        /\ o = Interrupted => intr < MaxInterrupts
        /\ intr' = IF o = Interrupted THEN intr + 1 ELSE intr
        /\ fs' = IF done THEN after ELSE before
        /\ ran' = ran \cup {[cmd |-> cmd, arg |-> arg, cwd |-> dir]}
        /\ last' = [cmd |-> cmd, arg |-> arg, cwd |-> dir, out |-> o]
        /\ pc' = IF ShResult(o).exit THEN "exited" ELSE nxt
        /\ exitCode' = IF ShResult(o).exit THEN ShResult(o).code ELSE 0

\* sys.exit(code) outside sh, and an uncaught Python exception (exit status 1)
Exit(code) == pc' = "exited" /\ exitCode' = code
Raise == Exit(1)

(* ------------------------------ __main__ -------------------------------- *)

Main ==
    /\ pc = "main"
    /\ IF Validate(args, fs) # "ok" THEN Exit(1) ELSE pc' = Dispatch(args) /\ exitCode' = exitCode
    /\ UNCHANGED <<args, fs, cwd, idx, ran, last, intr, run, prev, fs0, fetched>>

(* ------------------------------- setup ---------------------------------- *)

\* git clone leaves depot_tools in the working directory
GitCloneEffect(f, dir) == mkdirp(f, dir \o << <<"depot_tools">> >>)

\* fetch writes .gclient and checks the source out into src
FetchEffect(f, dir) ==
    Put(mkdirp(f, dir \o << <<"src">> >>), dir \o << <<".gclient">> >>, FileNode({}))

\* gclient sync works on the checkout that .gclient in the working directory names
GclientSyncEffect(f, dir) ==
    IF IsFile(f, dir \o << <<".gclient">> >>) THEN mkdirp(f, dir \o << <<"src">> >>) ELSE f

\* the clone check looking for the repository's name instead of the clone's
NeedCloneDotGit(f) == ~IsDir(f, TargetDir \o << <<"depot_tools.git">> >>)

\* the existence checks that make setup skip the clone and the fetch
NeedClone(f) == ~IsDir(f, DepotToolsDir)
NeedFetch(f) == ~IsDir(f, WebrtcDir)

SetupClone ==
    /\ pc = "setup"
    /\ cwd' = TargetDir
    /\ LET f1 == mkdirp(fs, TargetDir) IN
        IF NeedClone(f1)
        THEN Sh("git clone", <<>>, TargetDir, f1, GitCloneEffect(f1, TargetDir), "setup_fetch")
        ELSE /\ fs' = f1
             /\ pc' = "setup_fetch"
             /\ UNCHANGED <<exitCode, ran, last, intr>>
    /\ UNCHANGED <<args, idx, run, prev, fs0, fetched>>

\* the working directory setup has when it reaches gclient sync
SetupSyncCwd(fetching) == IF fetching THEN WebrtcDir ELSE cwd

SetupFetch ==
    /\ pc = "setup_fetch"
    /\ IF NeedFetch(fs)
       THEN /\ cwd' = SetupSyncCwd(TRUE)
            /\ LET f1 == mkdirp(fs, WebrtcDir) IN
                Sh("fetch", << <<"webrtc_", Platform>> >>, WebrtcDir, f1,
                   FetchEffect(f1, WebrtcDir), "setup_sync")
            /\ fetched' = IF last'.out = Returned(0) THEN fetched \cup {Platform} ELSE fetched
       ELSE /\ cwd' = SetupSyncCwd(FALSE)
            /\ pc' = "setup_sync"
            /\ UNCHANGED <<fs, exitCode, ran, last, intr, fetched>>
    /\ UNCHANGED <<args, idx, run, prev, fs0>>

SetupSync ==
    /\ pc = "setup_sync"
    /\ Sh("gclient sync", <<>>, cwd, fs, GclientSyncEffect(fs, cwd),
          IF Platform = "android" THEN "setup_deps" ELSE "done")
    /\ UNCHANGED <<args, cwd, idx, run, prev, fs0, fetched>>

SetupDeps ==
    /\ pc = "setup_deps"
    /\ IF IsDir(fs, SrcDir)
       THEN /\ cwd' = SrcDir
            /\ Sh("install-build-deps", <<>>, SrcDir, fs, fs, "done")
       ELSE /\ Raise
            /\ UNCHANGED <<fs, cwd, ran, last, intr>>
    /\ UNCHANGED <<args, idx, run, prev, fs0, fetched>>

(* -------------------------------- sync ---------------------------------- *)

\* the check looking at the checkout directory instead of src below it
SourceFoundParent(f) == IsDir(f, WebrtcDir)

\* build and sync refuse to start without the source tree
SourceFound(f) == IsDir(f, SrcDir)

Sync ==
    /\ pc = "sync"
    /\ IF ~SourceFound(fs)
       THEN /\ Exit(1)
            /\ UNCHANGED <<fs, cwd, ran, last, intr>>
       ELSE /\ cwd' = SrcDir
            /\ Sh("gclient sync -D", <<>>, SrcDir, fs, fs, "done")
    /\ UNCHANGED <<args, idx, run, prev, fs0, fetched>>

\* the sys.exit(0) that follows the action's function in __main__
Done ==
    /\ pc = "done"
    /\ Exit(0)
    /\ UNCHANGED <<args, fs, cwd, idx, ran, last, intr, run, prev, fs0, fetched>>

(* ------------------------------- build ---------------------------------- *)

LowerStr(b) == IF b THEN "true" ELSE "false"

\* GN_IOS_ARGS % (debug, arch, tenv): the values that vary, each under its key
GnIosArgs(d, arch, tenv) ==
    {<<"is_debug", d>>, <<"target_cpu", arch>>, <<"target_os", "ios">>,
     <<"target_environment", tenv>>}

\* GN_MACOS_ARGS % (debug, arch)
GnMacosArgs(d, arch) ==
    {<<"is_debug", d>>, <<"target_cpu", arch>>, <<"target_os", "mac">>}

\* GN_ANDROID_ARGS % (debug, cpu)
GnAndroidArgs(d, cpu) ==
    {<<"is_debug", d>>, <<"target_cpu", cpu>>, <<"target_os", "android">>}

IosOutDir(bt, item) == << <<"out">>, <<bt, "ios", item[1], item[2]>> >>
MacosOutDir(bt, arch) == << <<"out">>, <<bt, "macos", arch>> >>
AndroidOutDir(bt, cpu) == << <<"out">>, <<bt, cpu>> >>

\* the gn gen calls of build, in order: output directory and arguments
GnGenList(platform, bt, debug) ==
    IF platform = "ios"
    THEN [i \in 1..Len(IOS_BUILD_ARCHS) |->
            [dir |-> IosOutDir(bt, IOS_BUILD_ARCHS[i]),
             gnargs |-> GnIosArgs(LowerStr(debug), IOS_BUILD_ARCHS[i][2], IOS_BUILD_ARCHS[i][1])]]
         \o [i \in 1..Len(MACOS_BUILD_ARCHS) |->
            [dir |-> MacosOutDir(bt, MACOS_BUILD_ARCHS[i]),
             gnargs |-> GnMacosArgs(LowerStr(debug), MACOS_BUILD_ARCHS[i])]]
    ELSE [i \in 1..Len(ANDROID_BUILD_CPUS) |->
            [dir |-> AndroidOutDir(bt, ANDROID_BUILD_CPUS[i]),
             gnargs |-> GnAndroidArgs(LowerStr(debug), ANDROID_BUILD_CPUS[i])]]

\* the ninja calls of build, in order: output directory and target
NinjaList(platform, bt) ==
    IF platform = "ios"
    THEN [i \in 1..Len(IOS_BUILD_ARCHS) |->
            [dir |-> IosOutDir(bt, IOS_BUILD_ARCHS[i]), target |-> "framework_objc"]]
         \o [i \in 1..Len(MACOS_BUILD_ARCHS) |->
            [dir |-> MacosOutDir(bt, MACOS_BUILD_ARCHS[i]), target |-> "mac_framework_objc"]]
    ELSE [i \in 1..Len(ANDROID_BUILD_CPUS) |->
            [dir |-> AndroidOutDir(bt, ANDROID_BUILD_CPUS[i]), target |-> "libwebrtc"]]

PutFile(f, p, v) == Put(mkdirp(f, SubSeq(p, 1, Len(p) - 1)), p, FileNode(v))

\* gn gen creates the output directory and records the arguments in args.gn
GnGenEffect(f, dir, gnargs) == PutFile(f, dir \o << <<"args.gn">> >>, gnargs)

GnValue(a, key) == IF \E p \in a : p[1] = key THEN (CHOOSE p \in a : p[1] = key)[2] ELSE ""

\* the slice a configured directory compiles: operating system, environment, CPU
SliceOf(a) == <<GnValue(a, "target_os"), GnValue(a, "target_environment"), GnValue(a, "target_cpu")>>

DwarfPath == << <<"Contents">>, <<"Resources">>, <<"DWARF">>, <<"WebRTC">> >>
MacLibPath == << <<"Versions">>, <<"Current">>, <<"WebRTC">> >>

\* ninja builds what args.gn of the directory configures, and nothing without it
NinjaEffect(f, dir, target) ==
    IF ~IsFile(f, dir \o << <<"args.gn">> >>) THEN f
    ELSE LET s == {SliceOf(f[dir \o << <<"args.gn">> >>].v)} IN
         CASE target = "framework_objc" ->
                PutFile(PutFile(f, dir \o <<APPLE_FRAMEWORK_NAME, <<"WebRTC">> >>, s),
                        dir \o <<APPLE_DSYM_NAME>> \o DwarfPath, s)
           [] target = "mac_framework_objc" ->
                PutFile(PutFile(f, dir \o <<APPLE_FRAMEWORK_NAME>> \o MacLibPath, s),
                        dir \o <<APPLE_DSYM_NAME>> \o DwarfPath, s)
           [] OTHER ->
                PutFile(PutFile(f, dir \o << <<"lib.java">>, <<"sdk">>, <<"android">>, <<"libwebrtc.jar">> >>, s),
                        dir \o << <<"libjingle_peerconnection_so.so">> >>, s)

\* lipo -create writes one binary holding the slices of all its inputs
LipoEffect(f, inputs, out) ==
    IF \A i \in 1..Len(inputs) : IsFile(f, inputs[i])
    THEN Put(f, out, FileNode(UNION {f[inputs[i]].v : i \in 1..Len(inputs)}))
    ELSE f

\* Python file operations in sequence; the first that raises ends them
RECURSIVE RunOps(_, _)
RunOps(f, ops) ==
    IF ops = <<>> THEN [ok |-> TRUE, fs |-> f]
    ELSE LET o == Head(ops) IN
         CASE o.op = "copytree" ->
                IF copytreeOk(f, o.src, o.dst) THEN RunOps(copytree(f, o.src, o.dst), Tail(ops))
                ELSE [ok |-> FALSE, fs |-> f]
           [] o.op = "move" ->
                IF moveOk(f, o.src, o.dst) THEN RunOps(move(f, o.src, o.dst), Tail(ops))
                ELSE [ok |-> FALSE, fs |-> f]
           [] o.op = "copy" ->
                IF copyOk(f, o.src, o.dst) THEN RunOps(copy(f, o.src, o.dst), Tail(ops))
                ELSE [ok |-> FALSE, fs |-> f]
           [] OTHER -> RunOps(mkdirp(f, o.dst), Tail(ops))

Op(op, src, dst) == [op |-> op, src |-> src, dst |-> dst]

BuildStart ==
    /\ pc = "build"
    /\ IF ~SourceFound(fs)
       THEN /\ Exit(1)
            /\ UNCHANGED <<fs, cwd, idx>>
       ELSE /\ cwd' = SrcDir
            /\ fs' = rmr(fs, SrcDir \o << <<"out">> >>)
            /\ pc' = "gn_gen"
            /\ idx' = 1
            /\ exitCode' = exitCode
    /\ UNCHANGED <<args, ran, last, intr, run, prev, fs0, fetched>>

BuildGnGen ==
    /\ pc = "gn_gen"
    /\ LET list == GnGenList(Platform, BuildType, args.debug)
           g == list[idx]
       IN  /\ Sh("gn gen", g.dir, cwd, fs, GnGenEffect(fs, cwd \o g.dir, g.gnargs),
                 IF idx < Len(list) THEN "gn_gen" ELSE "ninja")
           /\ idx' = IF pc' = "gn_gen" THEN idx + 1 ELSE 1
    /\ UNCHANGED <<args, cwd, run, prev, fs0, fetched>>

BuildNinja ==
    /\ pc = "ninja"
    /\ LET list == NinjaList(Platform, BuildType)
           n == list[idx]
       IN  /\ Sh("ninja", n.dir, cwd, fs, NinjaEffect(fs, cwd \o n.dir, n.target),
                 IF idx < Len(list) THEN "ninja" ELSE "recreate")
           /\ idx' = IF pc' = "ninja" THEN idx + 1 ELSE 1
    /\ UNCHANGED <<args, cwd, run, prev, fs0, fetched>>

BuildRecreate ==
    /\ pc = "recreate"
    /\ fs' = mkdirp(rmr(fs, BuildDir), BuildDir)
    /\ pc' = IF Platform = "ios" THEN "lipo_sim_fw" ELSE "android_pkg"
    /\ UNCHANGED <<args, cwd, idx, exitCode, ran, last, intr, run, prev, fs0, fetched>>

(* --------------------------- Apple packaging ---------------------------- *)

Fat(name) == <<"fat-">> \o name
Bak(name) == <<"bak-">> \o name

\* [item for item in IOS_BUILD_ARCHS if item.startswith('simulator')]
Simulators == SelectSeq(IOS_BUILD_ARCHS, LAMBDA item : item[1] = "simulator")

\* the non-simulator items followed by the first simulator
IosBundled == SelectSeq(IOS_BUILD_ARCHS, LAMBDA item : item[1] # "simulator") \o <<Simulators[1]>>

SimOutDir == cwd \o IosOutDir(BuildType, Simulators[1])
MacOutDir == cwd \o MacosOutDir(BuildType, MACOS_BUILD_ARCHS[1])

\* shutil.move(orig, bak); shutil.move(fat, orig)
SwapOps(dir, name) ==
    << Op("move", dir \o <<name>>, dir \o <<Bak(name)>>),
       Op("move", dir \o <<Fat(name)>>, dir \o <<name>>) >>

\* the Python operations, then lipo over the inputs into out
LipoStep(ops, inputs, out, nxt) ==
    LET r == RunOps(fs, ops) IN
    IF r.ok
    THEN Sh("lipo", out, cwd, r.fs, LipoEffect(r.fs, inputs, out), nxt)
    ELSE /\ Raise
         /\ fs' = r.fs
         /\ UNCHANGED <<ran, last, intr>>

IosLipoSimFramework ==
    /\ pc = "lipo_sim_fw"
    /\ LipoStep(
          << Op("copytree", SimOutDir \o <<APPLE_FRAMEWORK_NAME>>,
                SimOutDir \o <<Fat(APPLE_FRAMEWORK_NAME)>>) >>,
          [i \in 1..Len(Simulators) |->
              cwd \o IosOutDir(BuildType, Simulators[i]) \o <<APPLE_FRAMEWORK_NAME, <<"WebRTC">> >>],
          SimOutDir \o <<Fat(APPLE_FRAMEWORK_NAME), <<"WebRTC">> >>,
          "lipo_sim_dsym")
    /\ UNCHANGED <<args, cwd, idx, run, prev, fs0, fetched>>

IosLipoSimDsym ==
    /\ pc = "lipo_sim_dsym"
    /\ LipoStep(
          SwapOps(SimOutDir, APPLE_FRAMEWORK_NAME)
          \o << Op("copytree", SimOutDir \o <<APPLE_DSYM_NAME>>,
                   SimOutDir \o <<Fat(APPLE_DSYM_NAME)>>) >>,
          [i \in 1..Len(Simulators) |->
              cwd \o IosOutDir(BuildType, Simulators[i]) \o <<APPLE_DSYM_NAME>> \o DwarfPath],
          SimOutDir \o <<Fat(APPLE_DSYM_NAME)>> \o DwarfPath,
          "lipo_mac_fw")
    /\ UNCHANGED <<args, cwd, idx, run, prev, fs0, fetched>>

IosLipoMacFramework ==
    /\ pc = "lipo_mac_fw"
    /\ LipoStep(
          SwapOps(SimOutDir, APPLE_DSYM_NAME)
          \o << Op("copytree", MacOutDir \o <<APPLE_FRAMEWORK_NAME>>,
                   MacOutDir \o <<Fat(APPLE_FRAMEWORK_NAME)>>) >>,
          [i \in 1..Len(MACOS_BUILD_ARCHS) |->
              cwd \o MacosOutDir(BuildType, MACOS_BUILD_ARCHS[i]) \o <<APPLE_FRAMEWORK_NAME>> \o MacLibPath],
          MacOutDir \o <<Fat(APPLE_FRAMEWORK_NAME)>> \o MacLibPath,
          "lipo_mac_dsym")
    /\ UNCHANGED <<args, cwd, idx, run, prev, fs0, fetched>>

\* the Python operations between the macOS framework lipo and the dSYM lipo
MacDsymOps ==
    SwapOps(MacOutDir, APPLE_FRAMEWORK_NAME)
    \o << Op("copytree", MacOutDir \o <<APPLE_DSYM_NAME>>, MacOutDir \o <<Fat(APPLE_DSYM_NAME)>>) >>

IosLipoMacDsym ==
    /\ pc = "lipo_mac_dsym"
    /\ LipoStep(
          MacDsymOps,
          [i \in 1..Len(MACOS_BUILD_ARCHS) |->
              cwd \o MacosOutDir(BuildType, MACOS_BUILD_ARCHS[i]) \o <<APPLE_DSYM_NAME>> \o DwarfPath],
          MacOutDir \o <<Fat(APPLE_DSYM_NAME)>> \o DwarfPath,
          "xcodebuild")
    /\ UNCHANGED <<args, cwd, idx, run, prev, fs0, fetched>>

XcframeworkPath == BuildDir \o << <<"WebRTC.xcframework">> >>

\* the -framework / -debug-symbols pairs of xcodebuild_cmd, in order
XcodebuildPairs ==
    [i \in 1..Len(IosBundled) |->
        [framework |-> cwd \o IosOutDir(BuildType, IosBundled[i]) \o <<APPLE_FRAMEWORK_NAME>>,
         dsym |-> cwd \o IosOutDir(BuildType, IosBundled[i]) \o <<APPLE_DSYM_NAME>>]]
    \o << [framework |-> MacOutDir \o <<APPLE_FRAMEWORK_NAME>>,
           dsym |-> MacOutDir \o <<APPLE_DSYM_NAME>>] >>

\* the library of the bundle that a pair becomes, named after the pair's directory
LibraryOf(pair) == <<pair.framework[Len(pair.framework) - 1]>>

\* xcodebuild -create-xcframework puts each framework, with its debug symbols,
\* into a library of the bundle; it needs every input to exist
RECURSIVE AddLibraries(_, _, _, _)
AddLibraries(f, src, out, pairs) ==
    IF pairs = <<>> THEN f
    ELSE LET p == Head(pairs)
             lib == out \o LibraryOf(p)
         IN  AddLibraries(
                PutFile(PutFile(f, lib \o <<APPLE_FRAMEWORK_NAME>>, ArchsUnder(src, p.framework)),
                        lib \o << <<"dSYMs">>, APPLE_DSYM_NAME>>, ArchsUnder(src, p.dsym)),
                src, out, Tail(pairs))

XcodebuildEffect(f, out, pairs) ==
    IF \A i \in 1..Len(pairs) : IsDir(f, pairs[i].framework) /\ IsDir(f, pairs[i].dsym)
    THEN AddLibraries(mkdirp(f, out), f, out, pairs)
    ELSE f

IosXcodebuild ==
    /\ pc = "xcodebuild"
    /\ Sh("xcodebuild", XcframeworkPath, cwd, fs,
          XcodebuildEffect(fs, XcframeworkPath, XcodebuildPairs), "ios_zip")
    /\ UNCHANGED <<args, cwd, idx, run, prev, fs0, fetched>>

\* zip -r of the named entries of dir into dir/name
ZipEffect(f, dir, name, entries) ==
    IF entries # {} /\ \A e \in entries : Exists(f, dir \o <<e>>)
    THEN Put(f, dir \o <<name>>, FileNode(entries))
    ELSE f

IosZip ==
    /\ pc = "ios_zip"
    /\ Sh("zip", BuildDir \o << <<"WebRTC.xcframework.zip">> >>, BuildDir, fs,
          ZipEffect(fs, BuildDir, <<"WebRTC.xcframework.zip">>, {<<"WebRTC.xcframework">>}), "done")
    /\ UNCHANGED <<args, cwd, idx, run, prev, fs0, fetched>>

(* -------------------------- Android packaging --------------------------- *)

\* the directory of the first CPU, from which the Java archive is copied
JarOutDir == AndroidOutDir(BuildType, ANDROID_BUILD_CPUS[1])

\* copy the Java archive, then per CPU make the ABI directory and copy the library
AndroidCopyOps ==
    << Op("copy", cwd \o JarOutDir \o << <<"lib.java">>, <<"sdk">>, <<"android">>, <<"libwebrtc.jar">> >>,
          BuildDir) >>
    \o [k \in 1..(2 * Len(ANDROID_BUILD_CPUS)) |->
          LET cpu == ANDROID_BUILD_CPUS[(k + 1) \div 2]
              lib_dir == BuildDir \o <<ANDROID_CPU_ABI_MAP[cpu]>>
          IN  IF k % 2 = 1
              THEN Op("mkdirp", lib_dir, lib_dir)
              ELSE Op("copy", cwd \o AndroidOutDir(BuildType, cpu)
                                  \o << <<"libjingle_peerconnection_so.so">> >>, lib_dir)]

\* the names the shell expands * to in dir
TopLevel(f, dir) == {q[Len(q)] : q \in {r \in DOMAIN f : Len(r) = Len(dir) + 1 /\ IsPrefix(dir, r)}}

AndroidPackage ==
    /\ pc = "android_pkg"
    /\ LET r == RunOps(fs, AndroidCopyOps) IN
       IF r.ok
       THEN Sh("zip", BuildDir \o << <<"android-webrtc.zip">> >>, BuildDir, r.fs,
               ZipEffect(r.fs, BuildDir, <<"android-webrtc.zip">>, TopLevel(r.fs, BuildDir)), "done")
       ELSE /\ Raise
            /\ fs' = r.fs
            /\ UNCHANGED <<ran, last, intr>>
    /\ UNCHANGED <<args, cwd, idx, run, prev, fs0, fetched>>

(* --------------------------- specifications ----------------------------- *)

StartDir == << <<"start">> >>
Target0 == WorkDir \o << <<"build_webrtc">> >>

Fresh == [p \in {WorkDir} |-> DirNode]

\* what a setup whose fetch failed leaves: the tool and an empty checkout directory
FailedFetch(f, platform) ==
    mkdirp(GitCloneEffect(mkdirp(f, Target0), Target0), Target0 \o << <<"webrtc">>, <<platform>> >>)

\* the checkout a complete setup for a platform leaves below the target
SetUp(f, platform) ==
    FetchEffect(FailedFetch(f, platform), Target0 \o << <<"webrtc">>, <<platform>> >>)

\* what an earlier build of a platform leaves: an out directory and an archive
Built(f, platform) ==
    PutFile(mkdirp(f, Target0 \o << <<"webrtc">>, <<platform>>, <<"src">>, <<"out">>, <<"old">> >>),
            Target0 \o << <<"build">>, <<platform>>, <<"old.zip">> >>, {})

\* file systems a run can find, each with the platforms whose fetch has completed:
\* no work directory, a bare one, a failed fetch, a checkout, a checkout built
\* before, and a target whose checkout was removed after a build
InitFs ==
    { [fs |-> <<>>, fetched |-> {}],
      [fs |-> Fresh, fetched |-> {}],
      [fs |-> FailedFetch(Fresh, "android"), fetched |-> {}],
      [fs |-> SetUp(Fresh, "ios"), fetched |-> {"ios"}],
      [fs |-> SetUp(Fresh, "android"), fetched |-> {"android"}],
      [fs |-> Built(SetUp(Fresh, "ios"), "ios"), fetched |-> {"ios"}],
      [fs |-> rmr(Built(SetUp(Fresh, "android"), "android"), Target0 \o << <<"webrtc">> >>),
       fetched |-> {}] }

ArgsOf(fl) ==
    [setup |-> fl.setup, build |-> fl.build, sync |-> fl.sync, ios |-> fl.ios,
     android |-> fl.android, debug |-> fl.debug, dir |-> WorkDir]

StartRun(a, f) ==
    /\ args = a
    /\ fs = f
    /\ fs0 = f
    /\ cwd = StartDir
    /\ pc = "main"
    /\ idx = 1
    /\ exitCode = 0
    /\ ran = {}
    /\ last = NoCmd
    /\ intr = 0

NoPrev == [ok |-> FALSE, platform |-> ""]

\* one run of the script, on any flags, from a file system it can find
Init ==
    /\ \E fl \in Flags, f \in InitFs : StartRun(ArgsOf(fl), f.fs) /\ fetched = f.fetched
    /\ run = 1
    /\ prev = NoPrev

Next ==
    \/ Main
    \/ SetupClone
    \/ SetupFetch
    \/ SetupSync
    \/ SetupDeps
    \/ Sync
    \/ BuildStart
    \/ BuildGnGen
    \/ BuildNinja
    \/ BuildRecreate
    \/ IosLipoSimFramework
    \/ IosLipoSimDsym
    \/ IosLipoMacFramework
    \/ IosLipoMacDsym
    \/ IosXcodebuild
    \/ IosZip
    \/ AndroidPackage
    \/ Done

Spec == Init /\ [][Next]_vars

\* --setup invoked again and again on one work directory, first on a bare one
SetupFlags == {fl \in Flags : fl.setup}

InitSetup ==
    /\ \E fl \in SetupFlags : StartRun(ArgsOf(fl), Fresh)
    /\ fetched = {}
    /\ run = 1
    /\ prev = NoPrev

\* the process has ended and the script is invoked once more on what it left
NextRun ==
    /\ pc = "exited"
    /\ run < MaxRuns
    /\ \E fl \in SetupFlags : args' = ArgsOf(fl)
    /\ prev' = [ok |-> Validate(args, fs0) = "ok" /\ exitCode = 0 /\ intr = 0,
                platform |-> Platform]
    /\ run' = run + 1
    /\ fs0' = fs
    /\ cwd' = StartDir
    /\ pc' = "main"
    /\ idx' = 1
    /\ exitCode' = 0
    /\ ran' = {}
    /\ last' = NoCmd
    /\ intr' = 0
    /\ UNCHANGED <<fs, fetched>>

NextSetup ==
    \/ Main
    \/ SetupClone
    \/ SetupFetch
    \/ SetupSync
    \/ SetupDeps
    \/ Done
    \/ NextRun

SpecSetup == InitSetup /\ [][NextSetup]_vars

(* ------------------------------- claims --------------------------------- *)

Cmds(name) == {c \in ran : c.cmd = name}
Count(b) == IF b THEN 1 ELSE 0
Accepted == Validate(args, fs0) = "ok"
Exited(code) == pc = "exited" /\ exitCode = code
LastFailed == last.out.kind = "returned" /\ last.out.rc # 0

\* a run of the given action in which every command returned 0
Succeeded(action) ==
    /\ Accepted
    /\ Dispatch(args) = action
    /\ Exited(0)
    /\ intr = 0

\* C1: when no action, two or more of --setup/--sync/--build, no platform, both
\* platforms or a target directory that does not exist is given, the process
\* exits with code 1 and has run no external command.
Conflicting ==
    \/ Count(args.setup) + Count(args.sync) + Count(args.build) # 1
    \/ Count(args.ios) + Count(args.android) # 1
    \/ ~IsDir(fs0, args.dir)

C1_ConflictingFlagsExit1 ==
    Conflicting => /\ ran = {}
                   /\ pc \in {"main", "exited"}
                   /\ pc = "exited" => exitCode = 1

\* C2: a command that returns a non-zero code c makes the process exit with
\* code c, and no later step (command or file operation) is executed.
C2_FailingCommandExits ==
    /\ [](LastFailed => Exited(last.out.rc))
    /\ [][LastFailed => UNCHANGED <<fs, ran, cwd, last>>]_vars

C2_Witness ==
    /\ last.cmd = "xcodebuild"
    /\ last.out = Returned(2)
    /\ Exited(2)

\* C3: a setup run that follows a successful setup run for the same platform
\* and target directory runs neither git clone nor fetch, and runs gclient
\* sync; every setup run that gets past the fetch step has run gclient sync.
C3_SecondSetupSkips ==
    /\ (run > 1 /\ prev.ok /\ Accepted /\ prev.platform = Platform) =>
          /\ Cmds("git clone") = {}
          /\ Cmds("fetch") = {}
          /\ pc \in {"setup_deps", "done", "exited"} => Cmds("gclient sync") # {}
    /\ (Accepted /\ pc \in {"setup_deps", "done"}) => Cmds("gclient sync") # {}

C3_Witness ==
    /\ run = 2
    /\ prev.ok
    /\ prev.platform = Platform
    /\ Succeeded("setup")
    /\ Cmds("gclient sync") # {}
    /\ Cmds("git clone") = {}

\* C4: build or sync with accepted flags and no source directory exits with
\* code 1, runs no external command and leaves the file system as it was.
C4_NoSourceNoEffect ==
    (Accepted /\ Dispatch(args) \in {"sync", "build"} /\ ~IsDir(fs0, SrcDir)) =>
        /\ ran = {}
        /\ fs = fs0
        /\ pc \in {"main", "sync", "build", "exited"}
        /\ pc = "exited" => exitCode = 1

C4_Witness ==
    /\ Accepted
    /\ Dispatch(args) = "build"
    /\ ~IsDir(fs0, SrcDir)
    /\ IsDir(fs0, BuildDir)
    /\ Exited(1)

\* C5: after a successful iOS build the bundle holds exactly three libraries:
\* device arm64, the two simulator architectures, the two macOS architectures,
\* each with debug symbols of the same architectures as its framework.
Libraries == TopLevel(fs, XcframeworkPath)
FrameworkArchs(l) == fs[XcframeworkPath \o <<l, APPLE_FRAMEWORK_NAME>>].v
DsymArchs(l) == fs[XcframeworkPath \o <<l, <<"dSYMs">>, APPLE_DSYM_NAME>>].v

DeviceSlices == {<<"ios", "device", "arm64">>}
SimulatorSlices == {<<"ios", "simulator", "arm64">>, <<"ios", "simulator", "x64">>}
MacosSlices == {<<"mac", "", "arm64">>, <<"mac", "", "x64">>}

C5_BundleSlices ==
    (Succeeded("build") /\ Platform = "ios") =>
        /\ Cardinality(Libraries) = 3
        /\ {FrameworkArchs(l) : l \in Libraries} = {DeviceSlices, SimulatorSlices, MacosSlices}
        /\ \A l \in Libraries : DsymArchs(l) = FrameworkArchs(l)

\* C6: a successful Android Release build generates and builds exactly the four
\* directories out/Release-<cpu>, and the zipped output directory holds one
\* libwebrtc.jar, from the first CPU, and one ABI directory per CPU with that
\* CPU's libjingle_peerconnection_so.so.
ReleaseDirs ==
    { << <<"out">>, <<"Release", "arm">> >>, << <<"out">>, <<"Release", "arm64">> >>,
      << <<"out">>, <<"Release", "x86">> >>, << <<"out">>, <<"Release", "x64">> >> }

AbiOf == {<<"arm", <<"armeabi-v7a">> >>, <<"arm64", <<"arm64-v8a">> >>,
          <<"x86", <<"x86">> >>, <<"x64", <<"x86_64">> >>}

Packed == {<<"libwebrtc.jar">>} \cup {a[2] : a \in AbiOf}

C6_AndroidRelease ==
    (Succeeded("build") /\ Platform = "android" /\ ~args.debug) =>
        /\ {c.arg : c \in Cmds("gn gen")} = ReleaseDirs
        /\ {c.arg : c \in Cmds("ninja")} = ReleaseDirs
        /\ fs[BuildDir \o << <<"android-webrtc.zip">> >>].v = Packed
        /\ TopLevel(fs, BuildDir) = Packed \cup {<<"android-webrtc.zip">>}
        /\ fs[BuildDir \o << <<"libwebrtc.jar">> >>] = FileNode({<<"android", "", "arm">>})
        /\ \A a \in AbiOf :
              /\ IsDir(fs, BuildDir \o <<a[2]>>)
              /\ TopLevel(fs, BuildDir \o <<a[2]>>) = {<<"libjingle_peerconnection_so.so">>}
              /\ fs[BuildDir \o <<a[2], <<"libjingle_peerconnection_so.so">> >>]
                    = FileNode({<<"android", "", a[1]>>})

C6_Witness ==
    /\ Succeeded("build")
    /\ Platform = "android"
    /\ ~args.debug
    /\ IsFile(fs, BuildDir \o << <<"android-webrtc.zip">> >>)

\* C7: once a command has been interrupted, the process exits without running
\* a later command or file operation.
C7_InterruptEndsRun ==
    [][intr > 0 => (ran' = ran /\ fs' = fs)]_vars

\* C8 as stated: with --sync and --build together on a source tree, both the
\* dependency sync and the build steps have run when the process ends well.
SyncAndBuild ==
    /\ args.sync /\ args.build /\ Accepted
    /\ IsDir(fs0, SrcDir)

C9_SyncInWebrtcDir ==
    Accepted => \A c \in Cmds("gclient sync") : c.cwd = WebrtcDir

\* C10: setup runs gclient sync only if the fetch for the platform has
\* completed successfully in this run or an earlier one.
C10_SyncOnlyAfterFetch ==
    (Accepted /\ Cmds("gclient sync") # {}) => Platform \in fetched

=============================================================================
